---- MODULE Spec2Model ----
(***************************************************************************)
(* Crypto portfolio tracker: the add-purchase form (AddPurchaseForm), the  *)
(* portfolio list with its valuation passes, interval timer and delete     *)
(* workflow (PortfolioList), the App refresh trigger, the symbol registry  *)
(* (cryptoApi.ts) and the record store / price oracle they talk to.        *)
(*                                                                         *)
(* Strings that the code inspects (symbols, names, the amount field) are   *)
(* sequences of one-character strings.  An optional value (null or         *)
(* undefined in the code) is <<>> when absent and <<v>> when present.      *)
(* Instants are counted in slots of a day; an ISO timestamp is modelled by *)
(* its instant, which orders the same way.  The local time zone is UTC.    *)
(***************************************************************************)
EXTENDS Integers, Sequences, FiniteSets, Bags, TLC

\* ------------------------------------------------------------------ bounds
\* The clock runs from 0 to MaxNow slots.
MaxNow == 2
\* Slots in one day; the time input offers every slot of a day.
SlotsPerDay == 2
\* Records the add-purchase workflow may create in one run of the model.
MaxAdds == 1
\* Records the store may hold.
MaxRecords == 2
\* Asynchronous operations (form submissions, store lists, valuation passes,
\* deletes) that may be in flight at the same time.
MaxInFlight == 2
\* Characters the user may type into the symbol input while searching.
MaxQueryLen == 3

\* ---------------------------------------------------------------- optionals
None == <<>>
Some(v) == <<v>>
IsSome(o) == o # None
Get(o) == o[1]
\* JavaScript truthiness of a number | null | undefined.
Truthy(o) == IsSome(o) /\ Get(o) # 0

\* ------------------------------------------------------------------ strings
Lower == <<"a","b","c","d","e","f","g","h","i","j","k","l","m",
           "n","o","p","q","r","s","t","u","v","w","x","y","z">>
Upper == <<"A","B","C","D","E","F","G","H","I","J","K","L","M",
           "N","O","P","Q","R","S","T","U","V","W","X","Y","Z">>
LowerIndex == [c \in {Lower[i] : i \in 1..Len(Lower)} |->
                 CHOOSE i \in 1..Len(Lower) : Lower[i] = c]
UpperChar(c) == IF c \in DOMAIN LowerIndex THEN Upper[LowerIndex[c]] ELSE c
toUpperCase(s) == [i \in 1..Len(s) |-> UpperChar(s[i])]
\* String.prototype.includes: q occurs in s as a run of adjacent characters.
includes(s, q) ==
  \E i \in 0..(Len(s) - Len(q)) : SubSeq(s, i + 1, i + Len(q)) = q

Digits == <<"0","1","2","3","4","5","6","7","8","9">>
IsDigit(c) == \E i \in 1..Len(Digits) : Digits[i] = c
DigitValue(c) == (CHOOSE i \in 1..Len(Digits) : Digits[i] = c) - 1
RECURSIVE ParseDigits(_, _)
ParseDigits(s, acc) ==
  IF s = <<>> \/ ~IsDigit(Head(s)) THEN acc
  ELSE ParseDigits(Tail(s), acc * 10 + DigitValue(Head(s)))
\* parseFloat on the strings a number input yields; the model's amounts are
\* whole numbers with an optional sign.
parseFloat(s) ==
  IF s # <<>> /\ Head(s) = "-" THEN 0 - ParseDigits(Tail(s), 0)
  ELSE ParseDigits(s, 0)

\* ----------------------------------------------------------------- registry
SUPPORTED_CRYPTOS ==
  << [symbol |-> <<"B","T","C">>, id |-> "bitcoin", name |-> <<"B","i","t","c","o","i","n">>],
     [symbol |-> <<"E","T","H">>, id |-> "ethereum", name |-> <<"E","t","h","e","r","e","u","m">>],
     [symbol |-> <<"U","S","D","T">>, id |-> "tether", name |-> <<"T","e","t","h","e","r">>],
     [symbol |-> <<"B","N","B">>, id |-> "binancecoin", name |-> <<"B","N","B">>],
     [symbol |-> <<"S","O","L">>, id |-> "solana", name |-> <<"S","o","l","a","n","a">>],
     [symbol |-> <<"X","R","P">>, id |-> "ripple", name |-> <<"X","R","P">>],
     [symbol |-> <<"U","S","D","C">>, id |-> "usd-coin", name |-> <<"U","S","D"," ","C","o","i","n">>],
     [symbol |-> <<"A","D","A">>, id |-> "cardano", name |-> <<"C","a","r","d","a","n","o">>],
     [symbol |-> <<"D","O","G","E">>, id |-> "dogecoin", name |-> <<"D","o","g","e","c","o","i","n">>],
     [symbol |-> <<"T","R","X">>, id |-> "tron", name |-> <<"T","R","O","N">>],
     [symbol |-> <<"A","V","A","X">>, id |-> "avalanche-2", name |-> <<"A","v","a","l","a","n","c","h","e">>],
     [symbol |-> <<"D","O","T">>, id |-> "polkadot", name |-> <<"P","o","l","k","a","d","o","t">>],
     [symbol |-> <<"M","A","T","I","C">>, id |-> "matic-network", name |-> <<"P","o","l","y","g","o","n">>],
     [symbol |-> <<"L","T","C">>, id |-> "litecoin", name |-> <<"L","i","t","e","c","o","i","n">>],
     [symbol |-> <<"L","I","N","K">>, id |-> "chainlink", name |-> <<"C","h","a","i","n","l","i","n","k">>],
     [symbol |-> <<"A","T","O","M">>, id |-> "cosmos", name |-> <<"C","o","s","m","o","s">>],
     [symbol |-> <<"U","N","I">>, id |-> "uniswap", name |-> <<"U","n","i","s","w","a","p">>],
     [symbol |-> <<"X","L","M">>, id |-> "stellar", name |-> <<"S","t","e","l","l","a","r">>],
     [symbol |-> <<"A","L","G","O">>, id |-> "algorand", name |-> <<"A","l","g","o","r","a","n","d">>],
     [symbol |-> <<"F","I","L">>, id |-> "filecoin", name |-> <<"F","i","l","e","c","o","i","n">>],
     [symbol |-> <<"S","U","I">>, id |-> "sui", name |-> <<"S","u","i">>],
     [symbol |-> <<"A","P","T">>, id |-> "aptos", name |-> <<"A","p","t","o","s">>],
     [symbol |-> <<"A","R","B">>, id |-> "arbitrum", name |-> <<"A","r","b","i","t","r","u","m">>],
     [symbol |-> <<"O","P">>, id |-> "optimism", name |-> <<"O","p","t","i","m","i","s","m">>],
     [symbol |-> <<"I","N","J">>, id |-> "injective-protocol", name |-> <<"I","n","j","e","c","t","i","v","e">>],
     [symbol |-> <<"T","I","A">>, id |-> "celestia", name |-> <<"C","e","l","e","s","t","i","a">>],
     [symbol |-> <<"S","E","I">>, id |-> "sei-network", name |-> <<"S","e","i">>],
     [symbol |-> <<"S","T","X">>, id |-> "blockstack", name |-> <<"S","t","a","c","k","s">>],
     [symbol |-> <<"N","E","A","R">>, id |-> "near", name |-> <<"N","E","A","R"," ","P","r","o","t","o","c","o","l">>],
     [symbol |-> <<"I","C","P">>, id |-> "internet-computer", name |-> <<"I","n","t","e","r","n","e","t"," ","C","o","m","p","u","t","e","r">>],
     [symbol |-> <<"I","O","T","E","X">>, id |-> "iotex", name |-> <<"I","o","T","e","X">>],
     [symbol |-> <<"H","B","A","R">>, id |-> "hedera-hashgraph", name |-> <<"H","e","d","e","r","a">>],
     [symbol |-> <<"V","E","T">>, id |-> "vechain", name |-> <<"V","e","C","h","a","i","n">>],
     [symbol |-> <<"F","T","M">>, id |-> "fantom", name |-> <<"F","a","n","t","o","m">>],
     [symbol |-> <<"S","A","N","D">>, id |-> "the-sandbox", name |-> <<"T","h","e"," ","S","a","n","d","b","o","x">>],
     [symbol |-> <<"M","A","N","A">>, id |-> "decentraland", name |-> <<"D","e","c","e","n","t","r","a","l","a","n","d">>],
     [symbol |-> <<"A","X","S">>, id |-> "axie-infinity", name |-> <<"A","x","i","e"," ","I","n","f","i","n","i","t","y">>],
     [symbol |-> <<"G","A","L","A">>, id |-> "gala", name |-> <<"G","a","l","a">>],
     [symbol |-> <<"T","H","E","T","A">>, id |-> "theta-token", name |-> <<"T","h","e","t","a"," ","N","e","t","w","o","r","k">>],
     [symbol |-> <<"X","T","Z">>, id |-> "tezos", name |-> <<"T","e","z","o","s">>] >>

\* c.symbol.toUpperCase() of every entry c.
RegistrySymbols ==
  { toUpperCase(SUPPORTED_CRYPTOS[i].symbol) : i \in 1..Len(SUPPORTED_CRYPTOS) }
validateSymbol(symbol) == toUpperCase(symbol) \in RegistrySymbols

\* searchCryptos without the slice: every match is returned.
searchCryptosUnsliced(query) ==
  IF query = <<>> THEN <<>>
  ELSE LET upperQuery == toUpperCase(query)
       IN SelectSeq(SUPPORTED_CRYPTOS,
                    LAMBDA crypto :
                      \/ includes(toUpperCase(crypto.symbol), upperQuery)
                      \/ includes(toUpperCase(crypto.name), upperQuery))

searchCryptos(query) ==
  IF query = <<>> THEN <<>>
  ELSE LET upperQuery == toUpperCase(query)
           matches ==
             SelectSeq(SUPPORTED_CRYPTOS,
                       LAMBDA crypto :
                         \/ includes(toUpperCase(crypto.symbol), upperQuery)
                         \/ includes(toUpperCase(crypto.name), upperQuery))
       IN SubSeq(matches, 1, IF Len(matches) < 5 THEN Len(matches) ELSE 5)

\* ------------------------------------------------------------- environment
\* Records that may exist in the store before the page is opened.  The
\* second one has no purchase price (purchase_price_usd is number | null).
InitialRecords ==
  { [id |-> 1, symbol |-> <<"E","T","H">>, purchase_date |-> -1, amount |-> 2,
     purchase_price_usd |-> Some(100), created_at |-> 0],
    [id |-> 2, symbol |-> <<"B","T","C">>, purchase_date |-> -2, amount |-> 1,
     purchase_price_usd |-> None, created_at |-> 0],
    [id |-> 3, symbol |-> <<"B","T","C">>, purchase_date |-> -3, amount |-> 1,
     purchase_price_usd |-> Some(150), created_at |-> 0] }
\* USD prices the oracle may answer with; it never answers 0, which both
\* clients reject as a missing price.
OraclePrices == {100, 150}
\* USD prices getCurrentPrice may answer with while the page is open.
CurrentPrices == {150}
\* What one getCurrentPrice call of a pass settles to: null when it threw.
PriceAnswers == {None} \cup { Some(usd) : usd \in CurrentPrices }
\* What the user may type into the form.
FormSymbols == { <<"b","t","c">>, <<"E","T","H">>,
                 <<"N","O","T","A","C","O","I","N">> }
FormAmounts == { <<"2">>, <<"0">>, <<"-","1">> }
\* The keys the user may press in the symbol input while searching.
QueryChars == {"b", "T", "c", "o", "i", "n", " "}
Slots == 0..(SlotsPerDay - 1)
\* The slot of the time input's default, 12:00.
Noon == SlotsPerDay \div 2

VARIABLES
  now,             \* the wall clock, in slots
  store,           \* crypto_purchases: the set of persisted records
  nextId,          \* the id the store gives the next created record
  refreshTrigger,  \* App state
  form,            \* AddPurchaseForm: fields, loading, error and the
                   \* position and locals of the submission in flight
  purchases,       \* PortfolioList state: the displayed list
  loading,         \* PortfolioList state
  error,           \* PortfolioList state
  pricesLoading,   \* PortfolioList state
  interval,        \* the armed interval timer: the list its callback captured
  lists,           \* fetchPurchases calls awaiting the store
  passes,          \* the bag of fetchCurrentPrices calls in flight
  deletes          \* the bag of handleDelete calls awaiting the store

vars == <<now, store, nextId, refreshTrigger, form, purchases, loading, error,
          pricesLoading, interval, lists, passes, deletes>>

formVars == <<form>>
listVars == <<purchases, loading, error, pricesLoading, interval, lists,
              passes, deletes>>

\* --------------------------------------------------------- AddPurchaseForm
\* The operations in flight; the events that start one (a submit, an interval
\* tick, a confirmed delete) wait while MaxInFlight of them are.
InFlight ==
  (IF form.pc = "idle" THEN 0 ELSE 1) + lists + BagCardinality(passes)
    + BagCardinality(deletes)

EmptyForm ==
  [symbol |-> <<>>, purchaseDate |-> None, purchaseTime |-> Noon,
   amount |-> <<>>]
FormFields(f) ==
  [symbol |-> f.symbol, purchaseDate |-> f.purchaseDate,
   purchaseTime |-> f.purchaseTime, amount |-> f.amount]

\* new Date(`${purchaseDate}T${purchaseTime}`): local date and time to instant.
NewDate(date, time) == date * SlotsPerDay + time
\* new Date().toISOString().split('T')[0]: today's date.
Today == now \div SlotsPerDay

\* fetchPurchases up to its await: setLoading(true) and the store query.
fetchPurchasesStart ==
  /\ loading' = TRUE
  /\ lists' = lists + 1

\* App.handlePurchaseAdded and the refreshTrigger effect of PortfolioList.
handlePurchaseAdded ==
  /\ refreshTrigger' = refreshTrigger + 1
  /\ fetchPurchasesStart

\* searchCryptos of the symbols the form submits, computed once.
FormSuggestions == [value \in FormSymbols |-> searchCryptos(value)]

\* handleSymbolChange: the form f after the symbol input changed to value.
SymbolChanged(f, value) ==
  IF Len(value) > 0
  THEN LET results == IF value \in FormSymbols THEN FormSuggestions[value]
                      ELSE searchCryptos(value)
       IN [f EXCEPT !.symbol = value, !.suggestions = results,
                    !.showSuggestions = Len(results) > 0]
  ELSE [f EXCEPT !.symbol = value, !.suggestions = <<>>,
                 !.showSuggestions = FALSE]

\* The user edits the symbol input, which is disabled while loading.
handleSymbolChange(value) ==
  /\ ~form.loading
  /\ form' = SymbolChanged(form, value)
  /\ UNCHANGED <<now, store, nextId, refreshTrigger>>
  /\ UNCHANGED listVars

\* The form after the user has typed the fields.
Typed(sym, date, time, amt) ==
  [SymbolChanged(form, sym) EXCEPT !.purchaseDate = Some(date),
                                   !.purchaseTime = time, !.amount = amt]

\* handleSubmit past the symbol check, up to the await of getHistoricalPrice.
Submitted(f) ==
  [f EXCEPT !.loading = TRUE, !.pc = "getHistoricalPrice",
            !.calls = {"getHistoricalPrice"},
            !.purchaseDateTime =
              Some(NewDate(Get(f.purchaseDate), f.purchaseTime)),
            !.historicalPrice = None]

\* handleSubmit without the return of line 62: the error is shown and the
\* submission goes on.
handleSubmitUnchecked(sym, date, time, amt) ==
  /\ ~form.loading
  /\ nextId - (Cardinality(InitialRecords) + 1) < MaxAdds
  /\ Cardinality(store) < MaxRecords
  /\ date <= Today
  /\ InFlight < MaxInFlight
  /\ form' = Submitted([Typed(sym, date, time, amt) EXCEPT
                          !.error = IF validateSymbol(sym) THEN ""
                                    ELSE "InvalidSymbol"])
  /\ UNCHANGED <<now, store, nextId, refreshTrigger>>
  /\ UNCHANGED listVars

\* The user fills the fields (the onChange handlers) and submits.  The browser
\* lets the submit through only with every required field filled, a numeric
\* amount and a date not after the date input's max; the submit button is
\* disabled while loading.
handleSubmit(sym, date, time, amt) ==
  /\ ~form.loading
  /\ nextId - (Cardinality(InitialRecords) + 1) < MaxAdds
  /\ Cardinality(store) < MaxRecords
  /\ date <= Today
  /\ validateSymbol(sym) => InFlight < MaxInFlight
  /\ IF ~validateSymbol(sym)
     THEN form' = [Typed(sym, date, time, amt) EXCEPT
                     !.error = "InvalidSymbol", !.calls = {}]
     ELSE form' = Submitted([Typed(sym, date, time, amt) EXCEPT !.error = ""])
  /\ UNCHANGED <<now, store, nextId, refreshTrigger>>
  /\ UNCHANGED listVars

\* getHistoricalPrice answers: a price, or it throws.
getHistoricalPriceOk(price) ==
  /\ form.pc = "getHistoricalPrice"
  /\ form' = [form EXCEPT !.pc = "insert", !.historicalPrice = Some(price),
                          !.calls = @ \cup {"insert"}]
  /\ UNCHANGED <<now, store, nextId, refreshTrigger>>
  /\ UNCHANGED listVars

\* getHistoricalPrice with its failure swallowed: the insert goes out with no
\* price.
getHistoricalPriceFailsInsertAnyway ==
  /\ form.pc = "getHistoricalPrice"
  /\ form' = [form EXCEPT !.pc = "insert", !.historicalPrice = None,
                          !.calls = @ \cup {"insert"}]
  /\ UNCHANGED <<now, store, nextId, refreshTrigger>>
  /\ UNCHANGED listVars

getHistoricalPriceFails ==
  /\ form.pc = "getHistoricalPrice"
  /\ form' = [form EXCEPT !.pc = "idle", !.error = "PriceUnavailable",
                          !.loading = FALSE]
  /\ UNCHANGED <<now, store, nextId, refreshTrigger>>
  /\ UNCHANGED listVars

\* The inserted record with the symbol as typed.
InsertedRecordAsTyped ==
  [id |-> nextId,
   symbol |-> form.symbol,
   purchase_date |-> Get(form.purchaseDateTime),
   amount |-> parseFloat(form.amount),
   purchase_price_usd |-> form.historicalPrice,
   created_at |-> now]

\* The record the insert sends, as the store persists it.
InsertedRecord ==
  [id |-> nextId,
   symbol |-> toUpperCase(form.symbol),
   purchase_date |-> Get(form.purchaseDateTime),
   amount |-> parseFloat(form.amount),
   purchase_price_usd |-> form.historicalPrice,
   created_at |-> now]

insertOk ==
  /\ form.pc = "insert"
  /\ store' = store \cup {InsertedRecord}
  /\ nextId' = nextId + 1
  /\ form' = [form EXCEPT !.symbol = <<>>, !.purchaseDate = None,
                          !.purchaseTime = Noon, !.amount = <<>>,
                          !.pc = "idle", !.loading = FALSE,
                          !.calls = @ \cup {"onPurchaseAdded"}]
  /\ handlePurchaseAdded
  /\ UNCHANGED <<now, purchases, error, pricesLoading, interval, passes,
                 deletes>>

insertFails ==
  /\ form.pc = "insert"
  /\ form' = [form EXCEPT !.pc = "idle", !.error = "StoreFailure",
                          !.loading = FALSE]
  /\ UNCHANGED <<now, store, nextId, refreshTrigger>>
  /\ UNCHANGED listVars

\* ----------------------------------------------------------- PortfolioList
\* A stored record as list data: none of PurchaseWithPrice's optional fields.
AsPurchase(r) ==
  [id |-> r.id, symbol |-> r.symbol, purchase_date |-> r.purchase_date,
   amount |-> r.amount, purchase_price_usd |-> r.purchase_price_usd,
   created_at |-> r.created_at,
   currentPrice |-> None, profitLoss |-> None, profitLossPercent |-> None]

\* select('*').order('purchase_date', {ascending: false}): every order of the
\* records that is descending in purchase_date.
ListResults(S) ==
  { data \in [1..Cardinality(S) -> S] :
      /\ \A i, j \in DOMAIN data : i # j => data[i] # data[j]
      /\ \A i, j \in DOMAIN data :
           i < j => data[i].purchase_date >= data[j].purchase_date }

RECURSIVE GCD(_, _)
GCD(a, b) == IF b = 0 THEN a ELSE GCD(b, a % b)
Abs(n) == IF n < 0 THEN 0 - n ELSE n
\* The real number n / d (d # 0) as a fraction in lowest terms, d > 0.
Frac(n, d) ==
  LET g == GCD(Abs(n), Abs(d))
      s == IF d < 0 THEN -1 ELSE 1
  IN <<(s * n) \div g, (s * d) \div g>>
\* x * 100 for a fraction x.
Times100(x) == Frac(x[1] * 100, x[2])

uniqueSymbols(purchasesData) ==
  { purchasesData[i].symbol : i \in DOMAIN purchasesData }

\* The valued record with its purchase price recomputed from the current one.
ValuedRepriced(purchase, currentPrice) ==
  [purchase EXCEPT
     !.purchase_price_usd = currentPrice,
     !.currentPrice = currentPrice,
     !.profitLoss = Some(0),
     !.profitLossPercent = Some(<<0, 1>>)]

\* Lines 79-87: the record with its derived fields.
Valued(purchase, currentPrice) ==
  [purchase EXCEPT
     !.currentPrice = currentPrice,
     !.profitLoss =
       Some((Get(currentPrice) - Get(purchase.purchase_price_usd))
            * purchase.amount),
     !.profitLossPercent =
       Some(Times100(Frac(Get(currentPrice) - Get(purchase.purchase_price_usd),
                          Get(purchase.purchase_price_usd))))]

\* A pass in which one failed fetch leaves every record unvalued.
UpdatedPurchaseAllOrNothing(purchase, priceMap) ==
  LET currentPrice == priceMap[purchase.symbol]
  IN IF /\ \A s \in DOMAIN priceMap : Truthy(priceMap[s])
        /\ Truthy(purchase.purchase_price_usd)
     THEN Valued(purchase, currentPrice)
     ELSE purchase

\* Lines 76-90: one record of updatedPurchases.
UpdatedPurchase(purchase, priceMap) ==
  LET currentPrice == priceMap[purchase.symbol]
  IN IF Truthy(currentPrice) /\ Truthy(purchase.purchase_price_usd)
     THEN Valued(purchase, currentPrice)
     ELSE purchase

updatedPurchases(purchasesData, priceMap) ==
  [i \in DOMAIN purchasesData |-> UpdatedPurchase(purchasesData[i], priceMap)]

\* The interval effect without its return at line 27: a timer is armed over
\* an empty list as well.
IntervalEffectArmsOnEmpty(old, new, timer) ==
  IF Len(new) = Len(old) THEN timer
  ELSE Some(new)

\* The interval effect (deps [purchases.length]) after a render that changes
\* the list from old to new: when the length differs the old timer is
\* cleared and, unless the new list is empty, one is armed whose callback
\* holds the new list.
IntervalEffect(old, new, timer) ==
  IF Len(new) = Len(old) THEN timer
  ELSE IF Len(new) = 0 THEN None
  ELSE Some(new)

\* fetchCurrentPrices up to its await: setPricesLoading(true) and one
\* getCurrentPrice per distinct symbol, all issued.
fetchCurrentPrices(purchasesData) ==
  [purchasesData |-> purchasesData,
   pending |-> uniqueSymbols(purchasesData),
   priceMap |-> [s \in {} |-> None]]

\* A bag with one more, or one fewer, copy of e.
Put(bag, e) == bag (+) SetToBag({e})
Take(bag, e) == bag (-) SetToBag({e})

\* fetchPurchases without the call of line 49: the list is displayed and no
\* pass is started.
fetchPurchasesOkWithoutPass(data) ==
  /\ lists > 0
  /\ data \in ListResults(store)
  /\ lists' = lists - 1
  /\ LET purchasesData == [i \in DOMAIN data |-> AsPurchase(data[i])]
     IN /\ purchases' = purchasesData
        /\ interval' = IntervalEffect(purchases, purchasesData, interval)
  /\ loading' = FALSE
  /\ UNCHANGED <<now, store, nextId, refreshTrigger, form, error, deletes,
                 passes, pricesLoading>>

\* fetchPurchases after its await, the list having succeeded with data.
fetchPurchasesOk(data) ==
  /\ lists > 0
  /\ data \in ListResults(store)
  /\ lists' = lists - 1
  /\ LET purchasesData == [i \in DOMAIN data |-> AsPurchase(data[i])]
     IN /\ purchases' = purchasesData
        /\ interval' = IntervalEffect(purchases, purchasesData, interval)
        /\ IF Len(purchasesData) > 0
           THEN /\ passes' = Put(passes, fetchCurrentPrices(purchasesData))
                /\ pricesLoading' = TRUE
           ELSE UNCHANGED <<passes, pricesLoading>>
  /\ loading' = FALSE
  /\ UNCHANGED <<now, store, nextId, refreshTrigger, form, error, deletes>>

\* fetchPurchases after its await, the list having failed.
fetchPurchasesFails ==
  /\ lists > 0
  /\ lists' = lists - 1
  /\ error' = "StoreFailure"
  /\ loading' = FALSE
  /\ UNCHANGED <<now, store, nextId, refreshTrigger, form, purchases,
                 pricesLoading, interval, passes, deletes>>

\* The interval callback: fetchCurrentPrices(purchases) on the captured list.
IntervalTick ==
  /\ IsSome(interval)
  /\ InFlight < MaxInFlight
  /\ passes' = Put(passes, fetchCurrentPrices(Get(interval)))
  /\ pricesLoading' = TRUE
  /\ UNCHANGED <<now, store, nextId, refreshTrigger, form, purchases, loading,
                 error, interval, lists, deletes>>

\* One getCurrentPrice of the pass in state p settles: price is Some(usd), or
\* None when the call threw and the catch of line 67 answered null.
getCurrentPriceSettles(p, symbol, price) ==
  /\ BagIn(p, passes)
  /\ symbol \in p.pending
  /\ passes' = Put(Take(passes, p),
                   [p EXCEPT !.pending = @ \ {symbol},
                             !.priceMap = @ @@ (symbol :> price)])
  /\ UNCHANGED <<now, store, nextId, refreshTrigger, form, purchases, loading,
                 error, pricesLoading, interval, lists, deletes>>

\* fetchCurrentPrices with Promise.race for Promise.all: the pass writes as
\* soon as one fetch has resolved, taking the others' prices as unknown.
fetchCurrentPricesWritesFirstComplete(p) ==
  /\ BagIn(p, passes)
  /\ DOMAIN p.priceMap # {}
  /\ LET priceMap == p.priceMap @@ [s \in p.pending |-> None]
         updated == updatedPurchases(p.purchasesData, priceMap)
     IN /\ purchases' = updated
        /\ interval' = IntervalEffect(purchases, updated, interval)
  /\ pricesLoading' = FALSE
  /\ passes' = Take(passes, p)
  /\ UNCHANGED <<now, store, nextId, refreshTrigger, form, loading, error,
                 lists, deletes>>

\* fetchCurrentPrices after Promise.all: the pass in state p writes its result.
fetchCurrentPricesWrites(p) ==
  /\ BagIn(p, passes)
  /\ p.pending = {}
  /\ LET updated == updatedPurchases(p.purchasesData, p.priceMap)
     IN /\ purchases' = updated
        /\ interval' = IntervalEffect(purchases, updated, interval)
  /\ pricesLoading' = FALSE
  /\ passes' = Take(passes, p)
  /\ UNCHANGED <<now, store, nextId, refreshTrigger, form, loading, error,
                 lists, deletes>>

\* The table, with its delete buttons, is rendered only past the guards of
\* lines 132-154.
TableShown == ~loading /\ error = "" /\ Len(purchases) > 0

\* handleDelete up to its await, the user having confirmed.
handleDelete(id) ==
  /\ TableShown
  /\ \E i \in DOMAIN purchases : purchases[i].id = id
  /\ InFlight < MaxInFlight
  /\ deletes' = Put(deletes, [id |-> id, purchases |-> purchases])
  /\ UNCHANGED <<now, store, nextId, refreshTrigger, form, purchases, loading,
                 error, pricesLoading, interval, lists, passes>>

\* handleDelete, the user having declined: it returns at line 97.
handleDeleteDeclined(id) ==
  /\ TableShown
  /\ \E i \in DOMAIN purchases : purchases[i].id = id
  /\ UNCHANGED vars

Filter(seq, id) == SelectSeq(seq, LAMBDA p : p.id # id)

\* handleDelete with its catch running the success path too: the row is
\* filtered out of the list although the store kept it.
handleDeleteFailsFiltersAnyway(d) ==
  /\ BagIn(d, deletes)
  /\ LET filtered == Filter(d.purchases, d.id)
     IN /\ purchases' = filtered
        /\ interval' = IntervalEffect(purchases, filtered, interval)
  /\ deletes' = Take(deletes, d)
  /\ UNCHANGED <<now, store, nextId, refreshTrigger, form, loading, error,
                 pricesLoading, lists, passes>>

\* handleDelete after its await, the store having deleted the row; d is the
\* call: the id and the list its closure holds.
handleDeleteOk(d) ==
  /\ BagIn(d, deletes)
  /\ store' = { r \in store : r.id # d.id }
  /\ LET filtered == Filter(d.purchases, d.id)
     IN /\ purchases' = filtered
        /\ interval' = IntervalEffect(purchases, filtered, interval)
  /\ deletes' = Take(deletes, d)
  /\ UNCHANGED <<now, nextId, refreshTrigger, form, loading, error,
                 pricesLoading, lists, passes>>

\* handleDelete after its await, the store having answered an error.
handleDeleteFails(d) ==
  /\ BagIn(d, deletes)
  /\ deletes' = Take(deletes, d)
  /\ UNCHANGED <<now, store, nextId, refreshTrigger, form, purchases, loading,
                 error, pricesLoading, interval, lists, passes>>

\* Lines 156-171: the aggregates of the rendered summary.
RECURSIVE SumValue(_)
SumValue(ps) ==
  IF ps = <<>> THEN 0
  ELSE LET p == Head(ps)
       IN (IF Truthy(p.currentPrice) THEN Get(p.currentPrice) * p.amount
           ELSE 0) + SumValue(Tail(ps))
RECURSIVE SumCost(_)
SumCost(ps) ==
  IF ps = <<>> THEN 0
  ELSE LET p == Head(ps)
       IN (IF Truthy(p.purchase_price_usd)
           THEN Get(p.purchase_price_usd) * p.amount
           ELSE 0) + SumCost(Tail(ps))
totalValue == SumValue(purchases)
totalCost == SumCost(purchases)
totalProfitLoss == totalValue - totalCost
totalProfitLossPercent ==
  IF totalCost > 0 THEN Times100(Frac(totalProfitLoss, totalCost))
  ELSE <<0, 1>>

\* ------------------------------------------------------------ specification
Tick ==
  /\ now < MaxNow
  /\ now' = now + 1
  /\ UNCHANGED <<store, nextId, refreshTrigger, form>>
  /\ UNCHANGED listVars

\* The page opens: every state is empty, and the mount effect of
\* PortfolioList has called fetchPurchases.
Init ==
  /\ now = 0
  /\ store \in { S \in SUBSET InitialRecords : Cardinality(S) <= MaxRecords }
  /\ nextId = Cardinality(InitialRecords) + 1
  /\ refreshTrigger = 0
  /\ form = [symbol |-> <<>>, purchaseDate |-> None, purchaseTime |-> Noon,
             amount |-> <<>>, loading |-> FALSE, error |-> "", pc |-> "idle",
             suggestions |-> <<>>, showSuggestions |-> FALSE,
             calls |-> {}, purchaseDateTime |-> None,
             historicalPrice |-> None]
  /\ purchases = <<>>
  /\ loading = TRUE
  /\ error = ""
  /\ pricesLoading = FALSE
  /\ interval = None
  /\ lists = 1
  /\ passes = EmptyBag
  /\ deletes = EmptyBag

\* The answers of the store and of the oracle to the add-purchase workflow.
AddAnswers ==
  \/ \E price \in OraclePrices : getHistoricalPriceOk(price)
  \/ getHistoricalPriceFails
  \/ insertOk
  \/ insertFails

\* The refresh effect, the interval timer and the valuation passes.
ValuationSteps ==
  \/ \E data \in ListResults(store) : fetchPurchasesOk(data)
  \/ fetchPurchasesFails
  \/ IntervalTick
  \/ \E p \in BagToSet(passes) :
       \E symbol \in p.pending, price \in PriceAnswers :
         getCurrentPriceSettles(p, symbol, price)
  \/ \E p \in BagToSet(passes) : fetchCurrentPricesWrites(p)

\* The delete workflow.
DeleteSteps ==
  \/ \E id \in 1..nextId : handleDelete(id)
  \/ \E id \in 1..nextId : handleDeleteDeclined(id)
  \/ \E d \in BagToSet(deletes) : handleDeleteOk(d)
  \/ \E d \in BagToSet(deletes) : handleDeleteFails(d)

\* The whole application; the user submits purchases of one symbol, dated now.
Next ==
  \/ \E amt \in {<<"2">>, <<"-","1">>} :
       handleSubmit(<<"b","t","c">>, 0, Noon, amt)
  \/ AddAnswers
  \/ ValuationSteps
  \/ DeleteSteps

Spec == Init /\ [][Next]_vars

\* PortfolioList alone, on a store nothing is added to.
NextList ==
  \/ ValuationSteps
  \/ DeleteSteps

SpecList == Init /\ [][NextList]_vars

\* PortfolioList with a user who waits for one delete to end before the next.
NextSingleDelete ==
  \/ ValuationSteps
  \/ \E id \in 1..nextId : deletes = EmptyBag /\ handleDelete(id)
  \/ \E d \in BagToSet(deletes) : handleDeleteOk(d)
  \/ \E d \in BagToSet(deletes) : handleDeleteFails(d)

SpecSingleDelete == Init /\ [][NextSingleDelete]_vars

\* The delete workflow over the listed and valued records, between two ticks
\* of the timer.
NextDelete ==
  \/ \E data \in ListResults(store) : fetchPurchasesOk(data)
  \/ fetchPurchasesFails
  \/ \E p \in BagToSet(passes) :
       \E symbol \in p.pending, price \in PriceAnswers :
         getCurrentPriceSettles(p, symbol, price)
  \/ \E p \in BagToSet(passes) : fetchCurrentPricesWrites(p)
  \/ DeleteSteps

SpecDelete == Init /\ [][NextDelete]_vars

\* The timer, the lists and the deletes while the price oracle is out of
\* reach: every getCurrentPrice call fails, so the lists differ in their
\* records only.
NextTimer ==
  \/ \E data \in ListResults(store) : fetchPurchasesOk(data)
  \/ fetchPurchasesFails
  \/ IntervalTick
  \/ \E p \in BagToSet(passes) :
       \E symbol \in p.pending : getCurrentPriceSettles(p, symbol, None)
  \/ \E p \in BagToSet(passes) : fetchCurrentPricesWrites(p)
  \/ DeleteSteps

SpecTimer == Init /\ [][NextTimer]_vars

\* The valuation passes alone: nothing is added or deleted.
NextValuation == ValuationSteps

SpecValuation == Init /\ [][NextValuation]_vars

\* The valuation passes when every getCurrentPrice call is answered or fails
\* in the end, and the continuation of a settled Promise.all is run.
SpecValuationFair ==
  /\ SpecValuation
  /\ WF_vars(\E p \in BagToSet(passes) :
               \E symbol \in p.pending, price \in PriceAnswers :
                 getCurrentPriceSettles(p, symbol, price))
  /\ WF_vars(\E p \in BagToSet(passes) : fetchCurrentPricesWrites(p))

\* The refresh signals: purchases are added while the list re-lists and
\* values; the timer does not tick and nothing is deleted.
NextRefresh ==
  \/ handleSubmit(<<"b","t","c">>, 0, Noon, <<"2">>)
  \/ AddAnswers
  \/ \E data \in ListResults(store) : fetchPurchasesOk(data)
  \/ fetchPurchasesFails
  \/ \E p \in BagToSet(passes) :
       \E symbol \in p.pending, price \in PriceAnswers :
         getCurrentPriceSettles(p, symbol, price)
  \/ \E p \in BagToSet(passes) : fetchCurrentPricesWrites(p)

SpecRefresh == Init /\ [][NextRefresh]_vars

\* The add-purchase workflow under every input of the form, while the clock
\* runs; PortfolioList is left waiting for the store.
NextAdd ==
  \/ Tick
  \/ \E sym \in FormSymbols, date \in 0..(MaxNow \div SlotsPerDay),
        time \in Slots, amt \in FormAmounts :
       handleSubmit(sym, date, time, amt)
  \/ AddAnswers

\* The page opens on an empty store.
InitAdd == Init /\ store = {}

SpecAdd == InitAdd /\ [][NextAdd]_vars

\* The user searches the registry: one key or one backspace at a time in the
\* symbol input.
NextSearch ==
  \/ \E c \in QueryChars :
       /\ Len(form.symbol) < MaxQueryLen
       /\ handleSymbolChange(Append(form.symbol, c))
  \/ /\ Len(form.symbol) > 0
     /\ handleSymbolChange(SubSeq(form.symbol, 1, Len(form.symbol) - 1))

SpecSearch == InitAdd /\ [][NextSearch]_vars
\* ------------------------------------------------------------------- claims
\* The step in which the pass in state p writes its result.
WritesStep(p) ==
  /\ BagIn(p, passes)
  /\ p.pending = {}
  /\ passes' = Take(passes, p)

\* The positions of a list whose symbol got a price in the pass p.
Priced(ps, p) == SelectSeq(ps, LAMBDA x : IsSome(p.priceMap[x.symbol]))

\* C1: in the snapshot a pass displays, a record whose symbol's current-price
\* fetch failed in that pass adds nothing to totalValue and nothing to
\* totalCost: both sums are those of the records whose fetch succeeded.
C1_FailedFetchExcludedFromTotals ==
  [][\A p \in BagToSet(passes) :
       (WritesStep(p) /\ TableShown') =>
         /\ totalValue' = SumValue(Priced(purchases', p))
         /\ totalCost' = SumCost(Priced(purchases', p))]_vars

\* C2: every position a pass writes for a record whose symbol's fetch failed
\* in that pass has currentPrice, profitLoss and profitLossPercent absent.
C2_FailedFetchLeavesDerivedAbsent ==
  [][\A p \in BagToSet(passes) :
       WritesStep(p) =>
         \A k \in DOMAIN purchases' :
           p.priceMap[purchases'[k].symbol] = None =>
             /\ purchases'[k].currentPrice = None
             /\ purchases'[k].profitLoss = None
             /\ purchases'[k].profitLossPercent = None]_vars

\* C3: a pass whose fetches have all settled, whichever of them failed, can
\* write; what it writes holds every input record, in order and with its
\* stored fields, and every record whose own symbol got a price and whose
\* purchase price is known carries that price and a profit/loss.
C3_PassNeverFailsAsAWhole ==
  /\ [](\A p \in BagToSet(passes) : p.pending = {} => ENABLED fetchCurrentPricesWrites(p))
  /\ [][\A p \in BagToSet(passes) :
          WritesStep(p) =>
            /\ Len(purchases') = Len(p.purchasesData)
            /\ \A k \in DOMAIN p.purchasesData :
                 LET rec == p.purchasesData[k]
                     out == purchases'[k]
                     price == p.priceMap[rec.symbol]
                 IN /\ out.id = rec.id
                    /\ out.symbol = rec.symbol
                    /\ out.amount = rec.amount
                    /\ out.purchase_price_usd = rec.purchase_price_usd
                    /\ (IsSome(price) /\ IsSome(rec.purchase_price_usd)) =>
                         /\ out.currentPrice = price
                         /\ IsSome(out.profitLoss)
                         /\ IsSome(out.profitLossPercent)]_vars

\* A pass has written its result with one symbol priced and the fetch of
\* another symbol, whose record has a purchase price, failed.
C3_Witness ==
  /\ passes = EmptyBag
  /\ \E k, j \in DOMAIN purchases :
       /\ purchases[k].symbol # purchases[j].symbol
       /\ purchases[k].currentPrice = Some(150)
       /\ IsSome(purchases[j].purchase_price_usd)
       /\ purchases[j].currentPrice = None

\* C4: in what a pass writes, profitLoss and profitLossPercent of a record are
\* defined exactly when the pass got a price for its symbol and its purchase
\* price is known, and then they are (price - purchase price) * amount and
\* (price - purchase price) / purchase price * 100.
C4_ProfitLossDefinedIffBothKnown ==
  [][\A p \in BagToSet(passes) :
       WritesStep(p) =>
         \A k \in DOMAIN p.purchasesData :
           LET rec == p.purchasesData[k]
               out == purchases'[k]
               price == p.priceMap[rec.symbol]
               known == IsSome(price) /\ IsSome(rec.purchase_price_usd)
           IN /\ IsSome(out.profitLoss) <=> known
              /\ IsSome(out.profitLossPercent) <=> known
              /\ known =>
                   /\ Get(out.profitLoss) =
                        (Get(price) - Get(rec.purchase_price_usd)) * rec.amount
                   /\ Get(out.profitLossPercent)[1]
                        * Get(rec.purchase_price_usd) =
                      (Get(price) - Get(rec.purchase_price_usd)) * 100
                        * Get(out.profitLossPercent)[2]]_vars

\* C5: in every displayed summary totalProfitLoss = totalValue - totalCost,
\* totalProfitLossPercent = totalProfitLoss / totalCost * 100 whenever
\* totalCost is not 0, and totalProfitLossPercent is 0 when totalCost is 0.
C5_AggregateFormulas ==
  TableShown =>
    /\ totalProfitLoss = totalValue - totalCost
    /\ totalCost # 0 =>
         totalProfitLossPercent[1] * totalCost =
           totalProfitLoss * 100 * totalProfitLossPercent[2]
    /\ totalCost = 0 => totalProfitLossPercent = <<0, 1>>

\* C6: a submission whose symbol is not in the registry ends in the
\* InvalidSymbol error with no call made to the oracle or to the store and no
\* refresh signalled.
C6_InvalidSymbolMakesNoCall ==
  /\ [](form.error = "InvalidSymbol" =>
          /\ ~validateSymbol(form.symbol)
          /\ form.pc = "idle"
          /\ ~form.loading
          /\ form.calls = {})
  /\ [][(form'.error = "InvalidSymbol" /\ form' # form) =>
          /\ store' = store
          /\ nextId' = nextId
          /\ refreshTrigger' = refreshTrigger
          /\ lists' = lists]_vars

\* NOTACOIN has been submitted.
C6_Witness ==
  /\ form.error = "InvalidSymbol"
  /\ form.symbol = <<"N","O","T","A","C","O","I","N">>
  /\ form.amount # <<>>

\* C7: when the historical price fetch fails no insert is issued, the store is
\* unchanged, the fields keep their values and no refresh is signalled; when
\* the insert fails the store is unchanged and no refresh is signalled; and a
\* record enters the store only complete, in the step that ends a successful
\* submission.
C7_FailedAddPersistsNothing ==
  [][/\ (form.pc = "getHistoricalPrice" /\ form'.pc = "idle") =>
          /\ form'.error = "PriceUnavailable"
          /\ "insert" \notin form'.calls
          /\ store' = store
          /\ nextId' = nextId
          /\ FormFields(form') = FormFields(form)
          /\ refreshTrigger' = refreshTrigger
          /\ lists' = lists
     /\ (form.pc = "insert" /\ form'.pc = "idle" /\ form'.error # "") =>
          /\ store' = store
          /\ nextId' = nextId
          /\ refreshTrigger' = refreshTrigger
          /\ lists' = lists
     /\ \A r \in store' \ store :
          /\ form.pc = "insert" /\ form'.pc = "idle" /\ form'.error = ""
          /\ r.symbol # <<>>
          /\ IsSome(r.purchase_price_usd)
          /\ r.purchase_date = Get(form.purchaseDateTime)]_vars

\* A submission has ended in a failed historical price fetch: the typed fields
\* are still there and the store is as it was.
C7_Witness ==
  /\ form.pc = "idle"
  /\ form.error = "PriceUnavailable"
  /\ form.symbol = <<"b","t","c">>
  /\ form.amount = <<"2">>
  /\ store = {}
  /\ refreshTrigger = 0

\* C8: the step that ends a successful submission adds exactly one record,
\* with the historical price fetched in this submission, the upper-cased
\* symbol and the parsed amount, clears the fields and signals one refresh;
\* the insert is issued only from a succeeded historical fetch.
C8_SuccessfulAddCreatesOneRecord ==
  [][/\ (form.pc = "insert" /\ form'.pc = "idle" /\ form'.error = "") =>
          /\ \E r \in store' :
               /\ r \notin store
               /\ store' = store \cup {r}
               /\ IsSome(form.historicalPrice)
               /\ r.purchase_price_usd = form.historicalPrice
               /\ r.symbol = toUpperCase(form.symbol)
               /\ r.symbol \in RegistrySymbols
               /\ r.amount = parseFloat(form.amount)
          /\ FormFields(form') = EmptyForm
          /\ refreshTrigger' = refreshTrigger + 1
          /\ lists' = lists + 1
     /\ (form'.pc = "insert" /\ form.pc # "insert") =>
          /\ form.pc = "getHistoricalPrice"
          /\ IsSome(form'.historicalPrice)
     /\ refreshTrigger' # refreshTrigger =>
          form.pc = "insert" /\ form'.error = ""]_vars

\* "btc", amount "2" has been added at the fetched price 150.
C8_Witness ==
  /\ \E r \in store :
       /\ r.symbol = <<"B","T","C">>
       /\ r.amount = 2
       /\ r.purchase_price_usd = Some(150)
  /\ FormFields(form) = EmptyForm
  /\ form.error = ""
  /\ refreshTrigger = 1

\* C9: every record the add-purchase workflow persists has amount > 0.
C9_PersistedAmountPositive ==
  \A r \in store : r.id > Cardinality(InitialRecords) => r.amount > 0

\* C10: every record the add-purchase workflow persists has a purchase
\* timestamp not later than the moment of its creation.
C10_TimestampNotAfterCreation ==
  \A r \in store :
    r.id > Cardinality(InitialRecords) => r.purchase_date <= r.created_at

\* ------------------------------------------------------------- C11 .. C20
\* The step in which an interval tick starts the pass x.
TickStep(x) ==
  /\ passes' = Put(passes, x)
  /\ lists' = lists
\* The store holds no record with this id: it has been deleted.
Deleted(id) == \A r \in store : r.id # id
\* The ids of a list, in its order.
Ids(ps) == [k \in DOMAIN ps |-> ps[k].id]

\* C11: when the displayed list shows a deleted record again (a pass started
\* before the delete wrote its stale list after it), the pass the next
\* interval tick starts corrects it: whatever its fetches answer, the list it
\* writes does not hold the deleted record.
C11_NextTickDropsDeletedRecord ==
  [][\A x \in BagToSet(passes') :
       TickStep(x) =>
         \A priceMap \in [uniqueSymbols(x.purchasesData) -> PriceAnswers] :
           LET result == updatedPurchases(x.purchasesData, priceMap)
           IN \A j \in DOMAIN purchases :
                Deleted(purchases[j].id) =>
                  \A k \in DOMAIN result : result[k].id # purchases[j].id]_vars
\* The step in which the delete call d ends with the store having deleted:
\* the call leaves the bag and the store or the displayed list changes.
DeleteOkStep(d) ==
  /\ BagIn(d, deletes)
  /\ deletes' = Take(deletes, d)
  /\ <<store, purchases>>' # <<store, purchases>>

\* C12: when a confirmed delete of id succeeds, the list displayed right
\* after holds the records displayed just before except id, in their order
\* (none added, dropped or brought back), id is gone from the store and no
\* list call is issued, whatever completed while the delete was in flight.
C12_DeleteRemovesOnlyItsRecord ==
  [][\A d \in BagToSet(deletes) :
       DeleteOkStep(d) =>
         /\ Ids(purchases') = Ids(Filter(purchases, d.id))
         /\ \A r \in store' : r.id # d.id
         /\ lists' = lists]_vars

\* The step in which the delete call d ends with the store having failed: the
\* call leaves the bag and the store still holds the record.
DeleteFailsStep(d) ==
  /\ BagIn(d, deletes)
  /\ deletes' = Take(deletes, d)
  /\ \E r \in store' : r.id = d.id

\* C13: a declined delete issues no delete call and changes nothing; a
\* confirmed delete that fails in the store leaves the store, the displayed
\* list and the interval timer as they were, so a displayed record stays
\* displayed; and a record leaves the store only by a delete call for it.
C13_DeclinedOrFailedDeleteChangesNothing ==
  [][/\ \A id \in 1..nextId :
          handleDeleteDeclined(id) =>
            UNCHANGED <<store, deletes, purchases, interval>>
     /\ \A d \in BagToSet(deletes) :
          DeleteFailsStep(d) =>
            /\ UNCHANGED <<store, purchases, interval, lists, passes>>
            /\ \A k \in DOMAIN purchases :
                 purchases[k].id = d.id => purchases'[k].id = d.id
     /\ \A r \in store \ store' :
          \E d \in BagToSet(deletes) :
            d.id = r.id /\ deletes' = Take(deletes, d)]_vars

\* A delete of the displayed record 1 is awaiting the store, which still
\* holds the record, while the timer is armed.
C13_Witness ==
  /\ \E d \in BagToSet(deletes) : d.id = 1
  /\ \E r \in store : r.id = 1
  /\ \E k \in DOMAIN purchases : purchases[k].id = 1
  /\ IsSome(interval)

\* C14: the one timer is armed exactly when the displayed list is not empty,
\* and its callback holds a list of the displayed length; no interval tick
\* starts a pass while the displayed list is empty.
C14_TimerArmedIffListNonEmpty ==
  /\ [](/\ IsSome(interval) <=> Len(purchases) > 0
        /\ IsSome(interval) => Len(Get(interval)) = Len(purchases))
  /\ [][\A x \in BagToSet(passes') :
          TickStep(x) => Len(purchases) > 0 /\ Len(x.purchasesData) > 0]_vars

\* The last displayed record has been deleted while a pass over it was in
\* flight: the list is empty and the timer is cancelled.
C14_Witness ==
  /\ purchases = <<>>
  /\ interval = None
  /\ store = {}
  /\ passes # EmptyBag
  /\ ~loading

\* C15: every interval tick starts a pass over exactly the records displayed
\* when it fires and issues no list call.  (The timer is recreated at every
\* change of the displayed record set, also one that keeps its length, so
\* its callback always holds the displayed records.)
C15_TickRunsOverDisplayedRecords ==
  [][\A x \in BagToSet(passes') :
       TickStep(x) =>
         /\ Ids(x.purchasesData) = Ids(purchases)
         /\ lists' = lists
         /\ UNCHANGED <<store, purchases>>]_vars

\* The step in which a fetchPurchases call gets the store's answer.
ListEndsStep == lists' = lists - 1
\* The step is that of a failed list: the error is shown, no pass is started
\* and the displayed list is unchanged.
ListFailed ==
  /\ error' = "StoreFailure"
  /\ passes' = passes
  /\ purchases' = purchases
\* One list call per refresh signal, and list calls only from refresh
\* signals (the initial load is the call in flight when the page opens).
OneListPerSignal ==
  /\ refreshTrigger' # refreshTrigger =>
       refreshTrigger' = refreshTrigger + 1 /\ lists' = lists + 1
  /\ lists' > lists =>
       refreshTrigger' = refreshTrigger + 1 /\ lists' = lists + 1

\* C16 as stated: every refresh signal causes exactly one list call; a list
\* that succeeds replaces the displayed list by the listed records and starts,
\* in the same step, one pass over exactly those records; a list that fails
\* starts no pass and leaves the displayed list unchanged.
C16_ListThenOnePass ==
  [][/\ OneListPerSignal
     /\ ListEndsStep =>
          \/ ListFailed
          \/ /\ error' = error
             /\ \E data \in ListResults(store) :
                  purchases' = [i \in DOMAIN data |-> AsPurchase(data[i])]
             /\ passes' = Put(passes, fetchCurrentPrices(purchases'))
             /\ pricesLoading']_vars

\* C16 amended: as stated, except that a list which succeeds with no record
\* empties the displayed list and starts no pass.
C16_ListThenOnePassUnlessEmpty ==
  [][/\ OneListPerSignal
     /\ ListEndsStep =>
          \/ ListFailed
          \/ /\ error' = error
             /\ \E data \in ListResults(store) :
                  purchases' = [i \in DOMAIN data |-> AsPurchase(data[i])]
             /\ IF Len(purchases') > 0
                THEN /\ passes' = Put(passes, fetchCurrentPrices(purchases'))
                     /\ pricesLoading'
                ELSE passes' = passes /\ pricesLoading' = pricesLoading]_vars

\* The re-list signalled by a successful add has succeeded: the created
\* record is displayed and a pass over the displayed list is in flight.
C16_Witness ==
  /\ refreshTrigger = 1
  /\ lists = 0
  /\ \E k \in DOMAIN purchases : purchases[k].id = Cardinality(InitialRecords) + 1
  /\ BagIn(fetchCurrentPrices(purchases), passes)

\* The step in which the pass x is started, and the one in which the pass in
\* state p ends.
PassStartsStep(x) == passes' = Put(passes, x)
PassEndsStep(p) == BagIn(p, passes) /\ passes' = Take(passes, p)

FromPass(ps, k, p) ==
  /\ IsSome(p.priceMap[ps[k].symbol])
  /\ ps[k].currentPrice = p.priceMap[ps[k].symbol]

\* C19: the displayed list is never a mix of two snapshots: when the list a
\* pass writes carries a current price of that pass, every current price it
\* carries is of that pass; and in every displayed list two positions of the
\* same symbol that both carry a current price carry the same one.
C19_NoMixOfSnapshots ==
  /\ [][\A p \in BagToSet(passes) :
          (/\ WritesStep(p)
           /\ \E j \in DOMAIN purchases' : FromPass(purchases', j, p)) =>
            \A k \in DOMAIN purchases' :
              IsSome(purchases'[k].currentPrice) => FromPass(purchases', k, p)]_vars
  /\ [](\A j, k \in DOMAIN purchases :
          (/\ purchases[j].symbol = purchases[k].symbol
           /\ IsSome(purchases[j].currentPrice)
           /\ IsSome(purchases[k].currentPrice)) =>
            purchases[j].currentPrice = purchases[k].currentPrice)

\* C20: a pass issues no write to the store, and the list it writes holds
\* the records of its input in their order, each with its id, symbol,
\* purchase timestamp, amount, purchase price and creation time unchanged.
C20_PassChangesOnlyDerivedFields ==
  [][\A p \in BagToSet(passes) :
       PassEndsStep(p) =>
         /\ UNCHANGED <<store, nextId>>
         /\ Ids(purchases') = Ids(p.purchasesData)
         /\ \A k \in DOMAIN p.purchasesData :
              /\ purchases'[k].symbol = p.purchasesData[k].symbol
              /\ purchases'[k].purchase_date = p.purchasesData[k].purchase_date
              /\ purchases'[k].amount = p.purchasesData[k].amount
              /\ purchases'[k].purchase_price_usd =
                   p.purchasesData[k].purchase_price_usd
              /\ purchases'[k].created_at = p.purchasesData[k].created_at
              /\ \A r \in store :
                   r.id = purchases'[k].id =>
                     purchases'[k].purchase_price_usd = r.purchase_price_usd]_vars

\* Record 1, bought at 100, is displayed valued at 150 and its stored and
\* displayed purchase price is still 100.
C20_Witness ==
  /\ \E k \in DOMAIN purchases :
       /\ purchases[k].id = 1
       /\ purchases[k].currentPrice = Some(150)
       /\ purchases[k].profitLoss = Some(100)
       /\ purchases[k].purchase_price_usd = Some(100)
  /\ \E r \in store : r.id = 1 /\ r.purchase_price_usd = Some(100)

\* A character in lower case, and s contains q when case is ignored.
LowerChar(c) ==
  IF \E i \in 1..Len(Upper) : Upper[i] = c
  THEN Lower[CHOOSE i \in 1..Len(Upper) : Upper[i] = c]
  ELSE c
toLowerCase(s) == [i \in 1..Len(s) |-> LowerChar(s[i])]
ContainsIgnoringCase(s, q) ==
  \E i \in 0..(Len(s) - Len(q)) :
    \A k \in 1..Len(q) : LowerChar(s[i + k]) = LowerChar(q[k])
\* The position of an entry in the registry.
RegistryIndex(e) ==
  CHOOSE i \in 1..Len(SUPPORTED_CRYPTOS) : SUPPORTED_CRYPTOS[i] = e

\* C17: searchCryptos("") is empty; the suggestions searchCryptos returned
\* for the typed query are at most 5, each is a registry entry whose symbol
\* or name contains the query when case is ignored, and they stand in
\* registry order; validateSymbol accepts every registry symbol in upper and
\* in lower case.
C17_SearchAndValidate ==
  /\ searchCryptos(<<>>) = <<>>
  /\ form.symbol = <<>> => form.suggestions = <<>>
  /\ Len(form.suggestions) <= 5
  /\ \A k \in DOMAIN form.suggestions :
       LET e == form.suggestions[k]
       IN /\ \E i \in 1..Len(SUPPORTED_CRYPTOS) : SUPPORTED_CRYPTOS[i] = e
          /\ \/ ContainsIgnoringCase(e.symbol, form.symbol)
             \/ ContainsIgnoringCase(e.name, form.symbol)
  /\ \A j, k \in DOMAIN form.suggestions :
       j < k => RegistryIndex(form.suggestions[j])
                  < RegistryIndex(form.suggestions[k])
  /\ \A i \in 1..Len(SUPPORTED_CRYPTOS) :
       /\ validateSymbol(toUpperCase(SUPPORTED_CRYPTOS[i].symbol))
       /\ validateSymbol(toLowerCase(SUPPORTED_CRYPTOS[i].symbol))

\* "co" has been typed: more than 5 entries match and 5 are suggested, the
\* first of them Bitcoin.
C17_Witness ==
  /\ form.symbol = <<"c", "o">>
  /\ Len(form.suggestions) = 5
  /\ form.suggestions[1].symbol = <<"B","T","C">>
  /\ form.showSuggestions

\* ------------------------------------------------------------- C21 .. C23
\* Nothing is in flight: no submission, list, pass or delete.
Quiescent ==
  /\ form.pc = "idle"
  /\ lists = 0
  /\ passes = EmptyBag
  /\ deletes = EmptyBag

\* C21: once the re-list a successful add triggered and every pass and
\* delete in flight have completed, the displayed list holds the created
\* record, unless it has been deleted since.  (No list has failed while the
\* load error is empty.)
C21_AddedRecordDisplayedWhenSettled ==
  (Quiescent /\ error = "") =>
    \A r \in store :
      r.id > Cardinality(InitialRecords) =>
        \E k \in DOMAIN purchases : purchases[k].id = r.id

\* C22: the prices-loading indicator is true exactly while a pass is in
\* flight: never false before every started pass has written.
C22_PricesLoadingWhilePassInFlight ==
  pricesLoading <=> passes # EmptyBag

\* The step in which a fetchPurchases call ends with the list succeeded: it
\* displays the listed records or starts a pass, which no failed list does.
ListSucceededStep ==
  /\ ListEndsStep
  /\ purchases' # purchases \/ passes' # passes

\* C23: after a list call succeeds the load error is empty, and after every
\* list attempt, succeeded or failed, the loading flag is false.
C23_ListSuccessClearsError ==
  [][/\ ListSucceededStep => error' = ""
     /\ ListEndsStep => loading' = FALSE]_vars
====
